---- MODULE Spec2Model ----
(***************************************************************************)
(* Shape encoding of rustc (src/rustc/middle/trans/shape.rs): the byte     *)
(* buffer primitives, shape_of and the tag registry it fills, the variant  *)
(* dominance analysis (largest_variants, compute_static_enum_size) and the *)
(* table generator gen_enum_shapes.                                        *)
(***************************************************************************)
EXTENDS Integers, Sequences, FiniteSets, TLC

VARIABLES
    tcx,        \* the type oracle: the enum declarations of the crate
    shape_cx,   \* ctxt: next_tag_id, tag_id_to_index, tag_order, resources
    pc,         \* position of the compilation: trans, the passes of gen_enum_shapes
    i,          \* gen_enum_shapes: `i`
    data,       \* gen_enum_shapes: `data`
    offsets,    \* gen_enum_shapes: `offsets`
    header,     \* gen_enum_shapes: `header` (the whole table once it is assembled)
    info,       \* gen_enum_shapes: `info`
    lv_table,   \* gen_enum_shapes: `lv_table`
    sizes,      \* gen_enum_shapes: header_sz, info_sz, data_sz
    cur,        \* gen_enum_shapes: position of the loops `for did_ in tag_order`
    calls,      \* the shape_of calls made by trans so far, with what each returned
    ret         \* value returned by the function applied last (dominance analysis)

vars == <<tcx, shape_cx, pc, i, data, offsets, header, info, lv_table, sizes, cur, calls, ret>>

-----------------------------------------------------------------------------
(* Opcodes, lines 35-62.                                                   *)
shape_u8 == 0
shape_u16 == 1
shape_u32 == 2
shape_u64 == 3
shape_i8 == 4
shape_i16 == 5
shape_i32 == 6
shape_i64 == 7
shape_f32 == 8
shape_f64 == 9
shape_box == 10
shape_vec == 11
shape_enum == 12
shape_struct == 17
shape_box_fn == 18
shape_res == 20
shape_var == 21
shape_uniq == 22
shape_opaque_closure_ptr == 23
shape_uniq_fn == 25
shape_stack_fn == 26
shape_bare_fn == 27
shape_tydesc == 28
shape_send_tydesc == 29
shape_class == 30
shape_rptr == 31

(* Casts `as u8`, `as u16`: the value modulo the width.                    *)
U8(x) == x % 256
U16(x) == x % 65536

-----------------------------------------------------------------------------
(* Type descriptors (ty::t), one record shape for every structural kind:   *)
(* k the kind, n the declaration id or parameter index, sub the children.  *)
Ty(k) == [k |-> k, n |-> 0, sub |-> <<>>]
ty_enum(did, tps) == [k |-> "ty_enum", n |-> did, sub |-> tps]
ty_param(n) == [k |-> "ty_param", n |-> n, sub |-> <<>>]
ty_uniq(t) == [k |-> "ty_uniq", n |-> 0, sub |-> <<t>>]
ty_vec(t) == [k |-> "ty_vec", n |-> 0, sub |-> <<t>>]
ty_box(t) == [k |-> "ty_box", n |-> 0, sub |-> <<t>>]
ty_rptr(t) == [k |-> "ty_rptr", n |-> 0, sub |-> <<t>>]
ty_constr(t) == [k |-> "ty_constr", n |-> 0, sub |-> <<t>>]
ty_tup(elts) == [k |-> "ty_tup", n |-> 0, sub |-> elts]
ty_rec(fields) == [k |-> "ty_rec", n |-> 0, sub |-> fields]
\* ty_res(did, raw_subt, tps): sub holds raw_subt and then tps
ty_res(did, raw_subt, tps) == [k |-> "ty_res", n |-> did, sub |-> <<raw_subt>> \o tps]
res_subt(t) == Head(t.sub)
res_tps(t) == Tail(t.sub)

(* ty::enum_variants(tcx, did) and the type parameter count of the item.   *)
(* A declaration id outside tcx is an enum of another crate, all of them of *)
(* the form enum e { f(u8) }.                                               *)
enum_variants(did) ==
    IF did \in DOMAIN tcx THEN tcx[did].variants
    ELSE <<[name |-> [ch |-> 102, len |-> 1], args |-> <<Ty("ty_u8")>>]>>
ty_param_count(did) == IF did \in DOMAIN tcx THEN tcx[did].nparams ELSE 0

RECURSIVE type_has_params(_)
(* ty::type_has_params: some ty_param occurs in the type.                  *)
type_has_params(t) ==
    \/ t.k = "ty_param"
    \/ \E x \in 1..Len(t.sub) : type_has_params(t.sub[x])

RECURSIVE substitute_type_params(_, _)
(* ty::substitute_type_params: ty_param(n) becomes tps[n].                 *)
substitute_type_params(tps, t) ==
    IF t.k = "ty_param"
    THEN IF t.n < Len(tps) THEN tps[t.n + 1] ELSE t
    ELSE [t EXCEPT !.sub = [x \in 1..Len(t.sub) |-> substitute_type_params(tps, t.sub[x])]]

-----------------------------------------------------------------------------
(* Byte buffer primitives, lines 282-291.                                  *)
add_bool(dest, val) == dest \o <<IF val THEN 1 ELSE 0>>

add_u16(dest, val) == dest \o <<val % 256, U8(val \div 256)>>

add_substr(dest, src) == add_u16(dest, U16(Len(src))) \o src

(* Enum classification, lines 212-228.                                     *)
HasArgs(v) == Len(v.args) > 0

(* enum_kind with several data-less variants classified tk_complex         *)
enum_kind_plain_as_complex(did) ==
    LET variants == enum_variants(did) IN
    IF \E x \in 1..Len(variants) : HasArgs(variants[x])
    THEN IF Len(variants) = 1 THEN "tk_newtype" ELSE "tk_complex"
    ELSE IF Len(variants) <= 1 THEN "tk_unit" ELSE "tk_complex"

enum_kind(did) ==
    LET variants == enum_variants(did) IN
    IF \E x \in 1..Len(variants) : HasArgs(variants[x])
    THEN IF Len(variants) = 1 THEN "tk_newtype" ELSE "tk_complex"
    ELSE IF Len(variants) <= 1 THEN "tk_unit" ELSE "tk_enum"

(* Architecture dependent scalars, lines 231-265 (x86_64).                 *)
s_int == shape_i64
s_uint == shape_u64
s_float == shape_f64
s_variant_enum_t == s_int
s_tydesc == shape_tydesc
s_send_tydesc == shape_send_tydesc

-----------------------------------------------------------------------------
(* interner::intern on ccx.shape_cx.resources: the index of an equal       *)
(* res_info when there is one, else the entry is appended.                 *)
interner_find(rs, ri) ==
    IF \E x \in 1..Len(rs) : rs[x] = ri
    THEN (CHOOSE x \in 1..Len(rs) : rs[x] = ri /\ \A y \in 1..(x - 1) : rs[y] # ri) - 1
    ELSE Len(rs)

interner_intern(rs, ri) ==
    IF \E x \in 1..Len(rs) : rs[x] = ri THEN rs ELSE Append(rs, ri)

(* vec::position_elt: the first position of n in the slot mapping, -1 for  *)
(* none.                                                                   *)
position_elt(m, n) ==
    IF \E x \in 1..Len(m) : m[x] = n
    THEN (CHOOSE x \in 1..Len(m) : m[x] = n /\ \A y \in 1..(x - 1) : m[y] # n) - 1
    ELSE -1

(* ty::type_is_pod, as far as shape_of's ty_vec case needs it: scalars, and *)
(* tuples and records of them.                                             *)
RECURSIVE type_is_pod(_)
type_is_pod(t) ==
    CASE t.k \in {"ty_tup", "ty_rec", "ty_constr"} ->
            \A x \in 1..Len(t.sub) : type_is_pod(t.sub[x])
      [] t.k \in {"ty_nil", "ty_bot", "ty_bool", "ty_int", "ty_uint", "ty_float",
                  "ty_u8", "ty_u16", "ty_u32", "ty_u64", "ty_i8", "ty_i16",
                  "ty_i32", "ty_char", "ty_i64", "ty_f32", "ty_f64", "ty_ptr",
                  "ty_type", "ty_send_type"} -> TRUE
      [] OTHER -> FALSE

(* tag_id_of with the arm `some(existing_id)` taking a fresh id too         *)
tag_id_of_fresh(cx, did) == cx.next_tag_id

(* The tag registry step of shape_of, lines 325-333: the id of did and the *)
(* registry after the lookup.                                              *)
tag_id_of(cx, did) ==
    IF did \in DOMAIN cx.tag_id_to_index
    THEN cx.tag_id_to_index[did]
    ELSE cx.next_tag_id

(* register_tag without `next_tag_id += 1u16`                               *)
register_tag_no_incr(cx, did) ==
    IF did \in DOMAIN cx.tag_id_to_index
    THEN cx
    ELSE [cx EXCEPT
            !.tag_id_to_index = [d \in DOMAIN cx.tag_id_to_index \cup {did} |->
                                    IF d = did THEN cx.next_tag_id
                                    ELSE cx.tag_id_to_index[d]],
            !.tag_order = Append(cx.tag_order, did)]

register_tag(cx, did) ==
    IF did \in DOMAIN cx.tag_id_to_index
    THEN cx
    ELSE [cx EXCEPT
            !.tag_id_to_index = [d \in DOMAIN cx.tag_id_to_index \cup {did} |->
                                    IF d = did THEN cx.next_tag_id
                                    ELSE cx.tag_id_to_index[d]],
            !.tag_order = Append(cx.tag_order, did),
            !.next_tag_id = U16(cx.next_tag_id + 1)]

Scalar(cx, b) == [s |-> <<b>>, cx |-> cx, ok |-> TRUE]

RECURSIVE shape_of(_, _, _)
RECURSIVE shape_of_each(_, _, _, _)
(* The loops of shape_of over a list of types: the shapes in order, each   *)
(* behind its length when prefixed (enum and resource type arguments), bare *)
(* for the fields of a record or tuple. The registry is threaded through.  *)
shape_of_each(cx, ts, ty_param_map, prefixed) ==
    IF ts = <<>>
    THEN [s |-> <<>>, cx |-> cx, ok |-> TRUE]
    ELSE LET h == shape_of(cx, Head(ts), ty_param_map)
             r == shape_of_each(h.cx, Tail(ts), ty_param_map, prefixed)
         IN  [s |-> (IF prefixed THEN add_u16(<<>>, U16(Len(h.s))) \o h.s ELSE h.s) \o r.s,
              cx |-> r.cx,
              ok |-> h.ok /\ r.ok]

(* shape_of, lines 293-413: [s: the bytes returned, cx: the registry after  *)
(* the call, ok: FALSE when the call fails].                                *)
shape_of(cx, t, ty_param_map) ==
    CASE t.k \in {"ty_nil", "ty_bool", "ty_u8", "ty_bot"} -> Scalar(cx, shape_u8)
      [] t.k = "ty_int" -> Scalar(cx, s_int)
      [] t.k = "ty_float" -> Scalar(cx, s_float)
      [] t.k \in {"ty_uint", "ty_ptr"} -> Scalar(cx, s_uint)
      [] t.k = "ty_type" -> Scalar(cx, s_tydesc)
      [] t.k = "ty_send_type" -> Scalar(cx, s_send_tydesc)
      [] t.k = "ty_i8" -> Scalar(cx, shape_i8)
      [] t.k = "ty_u16" -> Scalar(cx, shape_u16)
      [] t.k = "ty_i16" -> Scalar(cx, shape_i16)
      [] t.k = "ty_u32" -> Scalar(cx, shape_u32)
      [] t.k \in {"ty_i32", "ty_char"} -> Scalar(cx, shape_i32)
      [] t.k = "ty_u64" -> Scalar(cx, shape_u64)
      [] t.k = "ty_i64" -> Scalar(cx, shape_i64)
      [] t.k = "ty_f32" -> Scalar(cx, shape_f32)
      [] t.k = "ty_f64" -> Scalar(cx, shape_f64)
      [] t.k = "ty_str" ->
            LET u == shape_of(cx, Ty("ty_u8"), ty_param_map)
            IN  [u EXCEPT !.s = add_substr(add_bool(<<shape_vec>>, TRUE), u.s)]
      [] t.k = "ty_enum" ->
            IF enum_kind(t.n) \in {"tk_unit", "tk_enum"}
            THEN Scalar(cx, s_variant_enum_t)
            ELSE LET id == tag_id_of(cx, t.n)
                     a == shape_of_each(register_tag(cx, t.n), t.sub, ty_param_map, TRUE)
                 IN  [a EXCEPT !.s = add_u16(add_u16(<<shape_enum>>, U16(id)),
                                             U16(Len(t.sub))) \o a.s]
      [] t.k \in {"ty_box", "ty_opaque_box"} -> Scalar(cx, shape_box)
      [] t.k = "ty_uniq" ->
            LET u == shape_of(cx, t.sub[1], ty_param_map)
            IN  [u EXCEPT !.s = add_substr(<<shape_uniq>>, u.s)]
      [] t.k = "ty_vec" ->
            LET u == shape_of(cx, t.sub[1], ty_param_map)
            IN  [u EXCEPT !.s = add_substr(add_bool(<<shape_vec>>, type_is_pod(t.sub[1])), u.s)]
      [] t.k \in {"ty_rec", "ty_tup"} ->
            LET a == shape_of_each(cx, t.sub, ty_param_map, FALSE)
            IN  [a EXCEPT !.s = add_substr(<<shape_struct>>, a.s)]
      [] t.k = "ty_iface" -> Scalar(cx, shape_box_fn)
      [] t.k = "ty_class" -> Scalar(cx, shape_class)
      [] t.k = "ty_rptr" ->
            LET u == shape_of(cx, t.sub[1], ty_param_map)
            IN  [u EXCEPT !.s = add_substr(<<shape_rptr>>, u.s)]
      [] t.k = "ty_res" ->
            LET tps == res_tps(t)
                subt == substitute_type_params(tps, res_subt(t))
                ri == [did |-> t.n, tps |-> tps]
                id == interner_find(cx.resources, ri)
                cx1 == [cx EXCEPT !.resources = interner_intern(cx.resources, ri)]
                a == shape_of_each(cx1, tps, ty_param_map, TRUE)
                u == shape_of(a.cx, subt, ty_param_map)
            IN  [s |-> add_substr(add_u16(add_u16(<<shape_res>>, U16(id)),
                                          U16(Len(tps))) \o a.s, u.s),
                 cx |-> u.cx,
                 ok |-> a.ok /\ u.ok]
      [] t.k = "ty_param" ->
            LET p == position_elt(ty_param_map, t.n)
            IN  IF p >= 0
                THEN [s |-> <<shape_var, U8(p)>>, cx |-> cx, ok |-> TRUE]
                ELSE [s |-> <<>>, cx |-> cx, ok |-> FALSE]
      [] t.k = "ty_fn_box" -> Scalar(cx, shape_box_fn)
      [] t.k = "ty_fn_uniq" -> Scalar(cx, shape_uniq_fn)
      [] t.k \in {"ty_fn_block", "ty_fn_any"} -> Scalar(cx, shape_stack_fn)
      [] t.k = "ty_fn_bare" -> Scalar(cx, shape_bare_fn)
      [] t.k = "ty_opaque_closure_ptr" -> Scalar(cx, shape_opaque_closure_ptr)
      [] t.k = "ty_constr" -> shape_of(cx, t.sub[1], ty_param_map)
      [] OTHER -> [s |-> <<>>, cx |-> cx, ok |-> FALSE]

(* shape_of_variant, lines 416-425.                                        *)
shape_of_variant(cx, v, param_count) ==
    shape_of_each(cx, v.args, [x \in 1..param_count |-> x - 1], FALSE)

-----------------------------------------------------------------------------
(* The layout oracle: type_of followed by llsize_of_real / llalign_of_real *)
(* (lines 567-574) on x86_64. Defined for concrete types.                  *)
PtrSize == 8

RoundUp(n, a) == ((n + a - 1) \div a) * a

Max(a, b) == IF a < b THEN b ELSE a

PtrKinds ==
    {"ty_box", "ty_opaque_box", "ty_uniq", "ty_vec", "ty_str", "ty_ptr", "ty_rptr",
     "ty_type", "ty_send_type", "ty_opaque_closure_ptr", "ty_iface", "ty_class"}

FnKinds == {"ty_fn_box", "ty_fn_uniq", "ty_fn_block", "ty_fn_any", "ty_fn_bare"}

(* Creates a simpler, size-equivalent type, lines 623-640: fold_ty folds    *)
(* the children and then applies the simplifier.                            *)
nilptr == [k |-> "ty_ptr", n |-> 0, sub |-> <<Ty("ty_nil")>>]

RECURSIVE simplify_type(_)
(* The simplifier of lines 626-637, applied by fold_ty to a type whose      *)
(* children are folded already.                                             *)
simplifier(typ) ==
    IF typ.k \in {"ty_box", "ty_opaque_box", "ty_uniq", "ty_vec", "ty_ptr"}
    THEN nilptr
    ELSE IF typ.k \in FnKinds
    THEN ty_tup(<<nilptr, nilptr>>)
    ELSE IF typ.k = "ty_res"
    THEN ty_tup(<<Ty("ty_int"),
                  simplify_type(substitute_type_params(res_tps(typ), res_subt(typ)))>>)
    ELSE typ

(* ty::fold_ty(tcx, fm_general(simplifier), typ), line 639: bottom-up.      *)
simplify_type(typ) ==
    simplifier([typ EXCEPT !.sub = [x \in 1..Len(typ.sub) |-> simplify_type(typ.sub[x])]])

RECURSIVE SizeOf(_)
RECURSIVE AlignOf(_)
RECURSIVE StructEnd(_, _)
RECURSIVE StructAlign(_)
RECURSIVE static_size_of_enum(_)
(* The end of the last field of T_struct(lltys) laid out from offset off.   *)
StructEnd(ts, off) ==
    IF ts = <<>> THEN off
    ELSE StructEnd(Tail(ts), RoundUp(off, AlignOf(Head(ts))) + SizeOf(Head(ts)))

StructAlign(ts) ==
    IF ts = <<>> THEN 1 ELSE Max(AlignOf(Head(ts)), StructAlign(Tail(ts)))

(* llsize_of_real, llalign_of_real of T_struct of the types' representations *)
StructSize(ts) == RoundUp(StructEnd(ts, 0), StructAlign(ts))

(* static_size_of_enum, lines 592-614 (without the cache): the size of the  *)
(* data part of an enum.                                                    *)
static_size_of_enum(t) ==
    LET variants == enum_variants(t.n)
        this_size(x) ==
            SizeOf(substitute_type_params(t.sub, simplify_type(ty_tup(variants[x].args))))
    IN  IF variants = <<>> THEN 0
        ELSE this_size(CHOOSE x \in 1..Len(variants) :
                           \A y \in 1..Len(variants) : this_size(y) <= this_size(x))

SizeOf(t) ==
    CASE t.k \in {"ty_nil", "ty_bot", "ty_bool", "ty_u8", "ty_i8"} -> 1
      [] t.k \in {"ty_u16", "ty_i16"} -> 2
      [] t.k \in {"ty_u32", "ty_i32", "ty_char", "ty_f32"} -> 4
      [] t.k \in {"ty_u64", "ty_i64", "ty_f64", "ty_int", "ty_uint", "ty_float"} -> 8
      [] t.k \in PtrKinds -> PtrSize
      [] t.k \in FnKinds -> 2 * PtrSize
      [] t.k \in {"ty_tup", "ty_rec"} -> StructSize(t.sub)
      [] t.k = "ty_constr" -> SizeOf(t.sub[1])
      [] t.k = "ty_res" ->
            StructSize(<<Ty("ty_int"), substitute_type_params(res_tps(t), res_subt(t))>>)
      [] t.k = "ty_enum" ->
            LET size == static_size_of_enum(t)
            IN  IF Len(enum_variants(t.n)) # 1 THEN RoundUp(PtrSize + size, PtrSize)
                ELSE IF size = 0 THEN PtrSize
                ELSE size
      [] OTHER -> 1

AlignOf(t) ==
    CASE t.k \in {"ty_tup", "ty_rec"} -> StructAlign(t.sub)
      [] t.k = "ty_constr" -> AlignOf(t.sub[1])
      [] t.k \in FnKinds -> PtrSize
      [] t.k = "ty_res" ->
            StructAlign(<<Ty("ty_int"), substitute_type_params(res_tps(t), res_subt(t))>>)
      [] t.k = "ty_enum" ->
            IF Len(enum_variants(t.n)) # 1 \/ static_size_of_enum(t) = 0 THEN PtrSize ELSE 1
      [] OTHER -> SizeOf(t)

-----------------------------------------------------------------------------
(* largest_variants, lines 100-169.                                        *)

RECURSIVE min_size(_)
(* The loop of lines 111-122, min_size: a field that has type parameters   *)
(* adds nothing.                                                            *)
min_size(args) ==
    IF args = <<>> THEN 0
    ELSE (IF type_has_params(Head(args)) THEN 0 ELSE SizeOf(Head(args)))
         + min_size(Tail(args))

RECURSIVE min_align(_)
(* The loop of lines 111-122, min_align: the alignments are summed too.     *)
min_align(args) ==
    IF args = <<>> THEN 0
    ELSE (IF type_has_params(Head(args)) THEN 0 ELSE AlignOf(Head(args)))
         + min_align(Tail(args))

variant_bounded(v) == \A x \in 1..Len(v.args) : ~type_has_params(v.args[x])

variant_ranges(variants) ==
    [x \in 1..Len(variants) |->
        [size |-> [min |-> min_size(variants[x].args),
                   bounded |-> variant_bounded(variants[x])],
         align |-> [min |-> min_align(variants[x].args),
                    bounded |-> variant_bounded(variants[x])]]]

(* a >= b on the records {min, bounded}: field by field, the first field    *)
(* that differs decides.                                                    *)
range_ge(a, b) ==
    \/ a.min > b.min
    \/ a.min = b.min /\ (a.bounded \/ ~b.bounded)

(* lv_compare without the test that both variants are bounded              *)
lv_compare_unguarded(ranges, candidates, vi, vj) ==
    IF candidates[vj + 1]
    THEN IF range_ge(ranges[vi + 1].size, ranges[vj + 1].size)
            /\ range_ge(ranges[vi + 1].align, ranges[vj + 1].align)
         THEN [candidates EXCEPT ![vj + 1] = FALSE]
         ELSE IF range_ge(ranges[vj + 1].size, ranges[vi + 1].size)
                 /\ range_ge(ranges[vj + 1].align, ranges[vj + 1].align)
         THEN [candidates EXCEPT ![vi + 1] = FALSE]
         ELSE candidates
    ELSE candidates

(* lv_compare with `else if` of line 148 read as `if`: both branches can   *)
(* act in one comparison                                                    *)
lv_compare_no_else(ranges, candidates, vi, vj) ==
    IF candidates[vj + 1]
       /\ ranges[vi + 1].size.bounded /\ ranges[vi + 1].align.bounded
       /\ ranges[vj + 1].size.bounded /\ ranges[vj + 1].align.bounded
    THEN LET c1 == IF range_ge(ranges[vi + 1].size, ranges[vj + 1].size)
                      /\ range_ge(ranges[vi + 1].align, ranges[vj + 1].align)
                   THEN [candidates EXCEPT ![vj + 1] = FALSE]
                   ELSE candidates
         IN  IF range_ge(ranges[vj + 1].size, ranges[vi + 1].size)
                /\ range_ge(ranges[vj + 1].align, ranges[vj + 1].align)
             THEN [c1 EXCEPT ![vi + 1] = FALSE]
             ELSE c1
    ELSE candidates

(* The body of the inner while loop for one j, lines 141-154. Indices are   *)
(* the code's, from 0.                                                      *)
lv_compare(ranges, candidates, vi, vj) ==
    IF candidates[vj + 1]
       /\ ranges[vi + 1].size.bounded /\ ranges[vi + 1].align.bounded
       /\ ranges[vj + 1].size.bounded /\ ranges[vj + 1].align.bounded
    THEN IF range_ge(ranges[vi + 1].size, ranges[vj + 1].size)
            /\ range_ge(ranges[vi + 1].align, ranges[vj + 1].align)
         THEN [candidates EXCEPT ![vj + 1] = FALSE]
         ELSE IF range_ge(ranges[vj + 1].size, ranges[vi + 1].size)
                 /\ range_ge(ranges[vj + 1].align, ranges[vj + 1].align)
         THEN [candidates EXCEPT ![vi + 1] = FALSE]
         ELSE candidates
    ELSE candidates

RECURSIVE lv_inner(_, _, _, _)
lv_inner(ranges, candidates, vi, vj) ==
    IF vj < Len(ranges)
    THEN lv_inner(ranges, lv_compare(ranges, candidates, vi, vj), vi, vj + 1)
    ELSE candidates

RECURSIVE lv_outer(_, _, _)
lv_outer(ranges, candidates, vi) ==
    IF vi < Len(ranges) - 1
    THEN lv_outer(ranges,
                  IF candidates[vi + 1]
                  THEN lv_inner(ranges, candidates, vi, vi + 1)
                  ELSE candidates,
                  vi + 1)
    ELSE candidates

RECURSIVE lv_result(_, _)
(* lines 162-168: the indices still in the candidate set, in order          *)
lv_result(candidates, vi) ==
    IF vi < Len(candidates)
    THEN (IF candidates[vi + 1] THEN <<vi>> ELSE <<>>) \o lv_result(candidates, vi + 1)
    ELSE <<>>

(* vec::len(ranges) - 1u wraps for an enum without variants and            *)
(* candidates[0] is then out of bounds: the call fails.                     *)
largest_variants_fails(did) == Len(enum_variants(did)) = 0

largest_variants(did) ==
    LET variants == enum_variants(did)
        ranges == variant_ranges(variants)
        candidates == [x \in 1..Len(variants) |-> TRUE]
    IN  lv_result(lv_outer(ranges, candidates, 0), 0)

(* compute_static_enum_size, lines 179-210.                                *)
RECURSIVE static_max_size_last(_, _, _)
(* static_max_size without `if max_size < dp`: the last variant's size      *)
static_max_size_last(variants, lv, max_size) ==
    IF lv = <<>> THEN max_size
    ELSE static_max_size_last(variants, Tail(lv), U16(StructSize(variants[Head(lv) + 1].args)))

RECURSIVE static_max_size(_, _, _)
(* The loop of lines 184-197 for max_size: dp is the size of the struct of  *)
(* the variant's fields, as u16.                                            *)
static_max_size(variants, lv, max_size) ==
    IF lv = <<>> THEN max_size
    ELSE LET dp == U16(StructSize(variants[Head(lv) + 1].args))
         IN  static_max_size(variants, Tail(lv), IF max_size < dp THEN dp ELSE max_size)

RECURSIVE static_max_align(_, _, _)
(* The loop of lines 184-197 for max_align.                                 *)
static_max_align(variants, lv, max_align) ==
    IF lv = <<>> THEN max_align
    ELSE LET variant_align == U8(StructAlign(variants[Head(lv) + 1].args))
         IN  static_max_align(variants, Tail(lv),
                              IF max_align < variant_align THEN variant_align ELSE max_align)

compute_static_enum_size(lv, did) ==
    LET variants == enum_variants(did)
        max_size == static_max_size(variants, lv, 0)
        max_align == static_max_align(variants, lv, 1)
    IN  IF Len(variants) > 1
        THEN [size |-> U16(max_size + U16(PtrSize)),
              align |-> IF max_align < U8(PtrSize) THEN U8(PtrSize) ELSE max_align]
        ELSE [size |-> max_size, align |-> max_align]

-----------------------------------------------------------------------------
(* The crates the model compiles.                                          *)

MaxCalls == 3        \* shape_of calls trans makes before the tables are generated
MaxVariants == 3     \* variants of the enum the dominance analysis is applied to
LongName == 65535    \* bytes of the longest variant name
ManyEnums == 65535   \* most enums of other crates that trans has taken the shape of
FewEnums == 2        \* or at most this few

(* A variant name is a str of the type oracle: len times the character ch. *)
Name(ch, len) == [ch |-> ch, len |-> len]

Variant(name, args) == [name |-> name, args |-> args]

u8 == Ty("ty_u8")
u32 == Ty("ty_u32")
u64 == Ty("ty_u64")
bytes8 == ty_tup(<<u8, u8, u8, u8, u8, u8, u8, u8>>)

\* declaration ids
Opt == 1
List == 2
Color == 3
Unit == 4
Wrap == 5
Probe == 6
Res == 7

(* enum opt<T> { none, some(T) }; enum list { nil, cons(int, ~list) };      *)
(* enum color { red, green }; enum unit { only }; enum wrap { w(~probe<u8>) } *)
(* and enum probe<T> with the given variants.                               *)
World(probe) ==
    <<[variants |-> <<Variant(Name(110, 1), <<>>), Variant(Name(115, 1), <<ty_param(0)>>)>>,
       nparams |-> 1],
      [variants |-> <<Variant(Name(110, 1), <<>>),
                      Variant(Name(99, 1), <<Ty("ty_int"), ty_uniq(ty_enum(List, <<>>))>>)>>,
       nparams |-> 0],
      [variants |-> <<Variant(Name(114, 1), <<>>), Variant(Name(103, 1), <<>>)>>, nparams |-> 0],
      [variants |-> <<Variant(Name(111, 1), <<>>)>>, nparams |-> 0],
      [variants |-> <<Variant(Name(119, 1), <<ty_uniq(ty_enum(Probe, <<u8>>))>>)>>,
       nparams |-> 0],
      [variants |-> probe, nparams |-> 1]>>

(* The variants the probe enum is built from, with (size, alignment) sums   *)
(* (4,4), (8,1), (1,1), (2,2), unbounded, (12,5) and none.                  *)
VariantPool ==
    {Variant(Name(97, 1), <<u32>>),
     Variant(Name(98, 1), <<bytes8>>),
     Variant(Name(99, 1), <<u8>>),
     Variant(Name(100, 1), <<u8, u8>>),
     Variant(Name(101, 1), <<ty_param(0)>>),
     Variant(Name(102, 1), <<u32, bytes8>>),
     Variant(Name(103, 1), <<>>)}

(* The probe enums of the crates whose tables are generated.                *)
Probes ==
    {<<Variant(Name(97, 1), <<u32>>), Variant(Name(98, 1), <<bytes8>>)>>,
     <<Variant(Name(98, 1), <<bytes8>>), Variant(Name(97, 1), <<u32>>)>>,
     <<Variant(Name(100, 1), <<u8, u8>>), Variant(Name(99, 1), <<u8>>)>>,
     <<Variant(Name(101, 1), <<ty_param(0)>>), Variant(Name(99, 1), <<u8>>), Variant(Name(103, 1), <<>>)>>,
     <<Variant(Name(117, 1), <<ty_uniq(ty_enum(Opt, <<ty_enum(List, <<>>)>>))>>)>>,
     <<Variant(Name(103, 1), <<>>), Variant(Name(118, 1), <<ty_enum(Color, <<>>), u64>>)>>}

(* The probe enum of the crate with a long variant name.                    *)
LongProbe == <<Variant(Name(97, LongName), <<u8>>)>>

(* The shape_of calls of trans: a type and its ty_param_map.                *)
Roots ==
    {[t |-> ty_enum(Opt, <<u32>>), m |-> <<>>],
     [t |-> ty_enum(Opt, <<ty_enum(List, <<>>)>>), m |-> <<>>],
     [t |-> ty_enum(Color, <<>>), m |-> <<>>],
     [t |-> ty_enum(Unit, <<>>), m |-> <<>>],
     [t |-> ty_enum(Wrap, <<>>), m |-> <<>>],
     [t |-> ty_res(Res, ty_param(0), <<u32>>), m |-> <<>>],
     [t |-> ty_tup(<<ty_vec(ty_enum(Opt, <<ty_param(1)>>)), Ty("ty_str")>>), m |-> <<0, 1>>]}

-----------------------------------------------------------------------------
(* mk_ctxt, lines 267-280.                                                 *)
mk_ctxt ==
    [next_tag_id |-> 0,
     tag_id_to_index |-> [d \in {} |-> 0],
     tag_order |-> <<>>,
     resources |-> <<>>]

NoSizes == [header_sz |-> 0, info_sz |-> 0, data_sz |-> 0]
NoRet == [lv |-> <<>>, size_align |-> [size |-> 0, align |-> 0]]

Init ==
    /\ tcx \in {World(p) : p \in Probes}
    /\ shape_cx = mk_ctxt
    /\ pc = "trans"
    /\ i = 0
    /\ cur = 0
    /\ data = <<>>
    /\ offsets = <<>>
    /\ header = <<>>
    /\ info = <<>>
    /\ lv_table = <<>>
    /\ sizes = NoSizes
    /\ calls = <<>>
    /\ ret = NoRet

(* trans asks for the shape of a type (shape_of, lines 293-413).           *)
ShapeOfCall(t, m) ==
    /\ pc = "trans"
    /\ Len(calls) < MaxCalls
    /\ LET r == shape_of(shape_cx, t, m)
       IN  /\ shape_cx' = r.cx
           /\ calls' = Append(calls, [t |-> t, m |-> m, s |-> r.s])
           /\ pc' = IF r.ok THEN "trans" ELSE "failed"
    /\ UNCHANGED <<tcx, i, cur, data, offsets, header, info, lv_table, sizes, ret>>

(* gen_enum_shapes, lines 431-433.                                         *)
GenBegin ==
    /\ pc = "trans"
    /\ pc' = "data"
    /\ i' = 0
    /\ data' = <<>>
    /\ offsets' = <<>>
    /\ UNCHANGED <<tcx, shape_cx, cur, header, info, lv_table, sizes, calls, ret>>

(* str::bytes *)
str_bytes(name) == [x \in 1..name.len |-> name.ch]

RECURSIVE trans_registry(_, _)
(* the registry after the shape_of calls cs *)
trans_registry(cs, cx) ==
    IF cs = <<>> THEN cx
    ELSE trans_registry(Tail(cs), shape_of(cx, Head(cs).t, Head(cs).m).cx)

(* tags_left with the length of tag_order taken once, before the loop       *)
tags_left_at_entry == i < Len(trans_registry(calls, mk_ctxt).tag_order)

(* The condition of the first loop, line 434: tag_order is read again on    *)
(* every iteration.                                                         *)
tags_left == i < Len(shape_cx.tag_order)

RECURSIVE data_of_variants(_, _, _, _, _)
(* The vec::iter over the variants, lines 440-448: the registry, data and offsets      *)
(* after the blobs of the variants vs are appended.                         *)
data_of_variants(cx, vs, param_count, d, offs) ==
    IF vs = <<>>
    THEN [cx |-> cx, data |-> d, offsets |-> offs, ok |-> TRUE]
    ELSE LET v == Head(vs)
             offs1 == Append(offs, U16(Len(d)))
             variant_shape == shape_of_variant(cx, v, param_count)
             d1 == add_substr(d, variant_shape.s)
             zname == str_bytes(v.name) \o <<0>>
             d2 == add_substr(d1, zname)
             r == data_of_variants(variant_shape.cx, Tail(vs), param_count, d2, offs1)
         IN  [r EXCEPT !.ok = variant_shape.ok /\ r.ok]

(* One iteration of the first loop, lines 434-451.                         *)
GenData ==
    /\ pc = "data"
    /\ tags_left
    /\ LET did == shape_cx.tag_order[i + 1]
           r == data_of_variants(shape_cx, enum_variants(did), ty_param_count(did),
                                 data, offsets)
       IN  /\ shape_cx' = r.cx
           /\ data' = r.data
           /\ offsets' = r.offsets
           /\ pc' = IF r.ok THEN "data" ELSE "failed"
    /\ i' = i + 1
    /\ UNCHANGED <<tcx, cur, header, info, lv_table, sizes, calls, ret>>

RECURSIVE header_of(_, _, _, _)
(* The loop of lines 463-468: header and info_sz after the enums dids.      *)
header_of(dids, hdr, header_sz, info_sz) ==
    IF dids = <<>>
    THEN [header |-> hdr, info_sz |-> info_sz]
    ELSE LET num_variants == U16(Len(enum_variants(Head(dids))))
         IN  header_of(Tail(dids),
                       add_u16(hdr, U16(header_sz + info_sz)),
                       header_sz,
                       U16(info_sz + U16(U16(2 * U16(num_variants + 2)) + 3)))

(* The first loop has ended: the header pass, lines 457-475.               *)
GenHeader ==
    /\ pc = "data"
    /\ ~tags_left
    /\ LET header_sz == U16(2 * shape_cx.next_tag_id)
           h == header_of(shape_cx.tag_order, <<>>, header_sz, 0)
       IN  /\ header' = h.header
           /\ sizes' = [header_sz |-> header_sz,
                        info_sz |-> h.info_sz,
                        data_sz |-> U16(Len(data))]
    /\ info' = <<>>
    /\ lv_table' = <<>>
    /\ i' = 0
    /\ cur' = 0
    /\ pc' = "info"
    /\ UNCHANGED <<tcx, shape_cx, data, offsets, calls, ret>>

(* Whether the enum has dynamic size, lines 490-492.                       *)
dynamic(did) ==
    \E x \in 1..Len(enum_variants(did)) :
        \E y \in 1..Len(enum_variants(did)[x].args) :
            type_has_params(enum_variants(did)[x].args[y])

(* The static size and alignment or the placeholder, lines 496-497.        *)
enum_size_align(lv, did) ==
    IF dynamic(did) THEN [size |-> 0, align |-> 0]
    ELSE compute_static_enum_size(lv, did)

RECURSIVE add_u16s(_, _)
(* for v in lv { add_u16(lv_table, v as u16) }, line 487                    *)
add_u16s(dest, vals) ==
    IF vals = <<>> THEN dest
    ELSE add_u16s(add_u16(dest, U16(Head(vals))), Tail(vals))

RECURSIVE add_offsets(_, _, _, _)
(* The loop of lines 503-506 over count variants, from offsets[at].         *)
add_offsets(dest, base, at, count) ==
    IF count = 0 THEN dest
    ELSE add_offsets(add_u16(dest, U16(base + offsets[at + 1])), base, at + 1, count - 1)

(* One iteration of the info loop, lines 476-507.                          *)
GenInfo ==
    /\ pc = "info"
    /\ cur < Len(shape_cx.tag_order)
    /\ LET did == shape_cx.tag_order[cur + 1]
           variants == enum_variants(did)
           info1 == add_u16(info, U16(Len(variants)))
           info2 == add_u16(info1, U16(U16(U16(sizes.header_sz + sizes.info_sz)
                                           + sizes.data_sz) + U16(Len(lv_table))))
           lv == largest_variants(did)
           size_align == enum_size_align(lv, did)
           info3 == add_u16(info2, size_align.size) \o <<size_align.align>>
       IN  IF i + Len(variants) > Len(offsets)
           THEN /\ pc' = "failed"
                /\ UNCHANGED <<info, lv_table, i>>
           ELSE /\ lv_table' = add_u16s(add_u16(lv_table, U16(Len(lv))), lv)
                /\ info' = add_offsets(info3, U16(sizes.header_sz + sizes.info_sz),
                                       i, Len(variants))
                /\ i' = i + Len(variants)
                /\ pc' = "info"
    /\ cur' = cur + 1
    /\ UNCHANGED <<tcx, shape_cx, data, offsets, header, sizes, calls, ret>>

(* The assertions and the assembly of the table, lines 509-518.            *)
GenFinish ==
    /\ pc = "info"
    /\ cur = Len(shape_cx.tag_order)
    /\ IF /\ i = Len(offsets)
          /\ sizes.header_sz = U16(Len(header))
          /\ sizes.info_sz = U16(Len(info))
          /\ sizes.data_sz = U16(Len(data))
       THEN /\ header' = header \o info \o data \o lv_table
            /\ pc' = "done"
       ELSE /\ pc' = "failed"
            /\ UNCHANGED header
    /\ UNCHANGED <<tcx, shape_cx, i, cur, data, offsets, info, lv_table, sizes, calls, ret>>

Next ==
    \/ \E r \in Roots : ShapeOfCall(r.t, r.m)
    \/ GenBegin
    \/ GenData
    \/ GenHeader
    \/ GenInfo
    \/ GenFinish

Spec == Init /\ [][Next]_vars

(* The crate whose probe enum has the long variant name.                    *)
InitLong ==
    /\ tcx = World(LongProbe)
    /\ shape_cx = mk_ctxt
    /\ pc = "trans"
    /\ i = 0
    /\ cur = 0
    /\ data = <<>>
    /\ offsets = <<>>
    /\ header = <<>>
    /\ info = <<>>
    /\ lv_table = <<>>
    /\ sizes = NoSizes
    /\ calls = <<>>
    /\ ret = NoRet

SpecLong == InitLong /\ [][Next]_vars

(* The registry after trans has taken the shape of n enums of other crates, *)
(* the x-th with declaration id Res + x: by lines 325-333 the x-th of them  *)
(* was given id x - 1, and next_tag_id was incremented n times in u16.      *)
registry_after(n) ==
    [next_tag_id |-> U16(n),
     tag_id_to_index |-> [d \in (Res + 1)..(Res + n) |-> U16(d - Res - 1)],
     tag_order |-> [x \in 1..n |-> Res + x],
     resources |-> <<>>]

InitMany ==
    /\ tcx = World(<<Variant(Name(97, 1), <<u32>>), Variant(Name(98, 1), <<bytes8>>)>>)
    /\ shape_cx \in {registry_after(n) : n \in (0..FewEnums) \cup {ManyEnums}}
    /\ pc = "trans"
    /\ i = 0
    /\ cur = 0
    /\ data = <<>>
    /\ offsets = <<>>
    /\ header = <<>>
    /\ info = <<>>
    /\ lv_table = <<>>
    /\ sizes = NoSizes
    /\ calls = <<>>
    /\ ret = NoRet

(* The shape_of calls trans makes next.                                     *)
ManyRoots ==
    {[t |-> ty_enum(Opt, <<u32>>), m |-> <<>>],
     [t |-> ty_enum(Wrap, <<>>), m |-> <<>>],
     [t |-> ty_enum(Res + 1, <<>>), m |-> <<>>]}

NextMany == \E r \in ManyRoots : ShapeOfCall(r.t, r.m)

SpecMany == InitMany /\ [][NextMany]_vars

-----------------------------------------------------------------------------
(* The dominance analysis applied to one enum: largest_variants and, as in  *)
(* gen_enum_shapes (lines 485-497), compute_static_enum_size on its result  *)
(* when the enum is not dynamic.                                            *)

RECURSIVE SeqsUpTo(_, _)
(* the sequences over S of length at most n *)
SeqsUpTo(S, n) ==
    IF n = 0 THEN {<<>>}
    ELSE LET shorter == SeqsUpTo(S, n - 1)
         IN  shorter \cup {Append(q, x) : q \in shorter, x \in S}

InitLV ==
    /\ tcx \in {World(p) : p \in SeqsUpTo(VariantPool, MaxVariants)}
    /\ shape_cx = mk_ctxt
    /\ pc = "lv"
    /\ i = 0
    /\ cur = 0
    /\ data = <<>>
    /\ offsets = <<>>
    /\ header = <<>>
    /\ info = <<>>
    /\ lv_table = <<>>
    /\ sizes = NoSizes
    /\ calls = <<>>
    /\ ret = NoRet

LargestVariantsCall ==
    /\ pc = "lv"
    /\ IF largest_variants_fails(Probe)
       THEN pc' = "failed" /\ UNCHANGED ret
       ELSE pc' = "lv_ret" /\ ret' = [ret EXCEPT !.lv = largest_variants(Probe)]
    /\ UNCHANGED <<tcx, shape_cx, i, cur, data, offsets, header, info, lv_table, sizes, calls>>

StaticSizeCall ==
    /\ pc = "lv_ret"
    /\ ~dynamic(Probe)
    /\ ret' = [ret EXCEPT !.size_align = compute_static_enum_size(ret.lv, Probe)]
    /\ pc' = "sa_ret"
    /\ UNCHANGED <<tcx, shape_cx, i, cur, data, offsets, header, info, lv_table, sizes, calls>>

NextLV == LargestVariantsCall \/ StaticSizeCall

SpecLV == InitLV /\ [][NextLV]_vars

-----------------------------------------------------------------------------
(* Reading the tables back.                                                 *)

(* the little-endian u16 at byte position at (from 0) of b *)
rd_u16(b, at) == b[at + 1] + 256 * b[at + 2]

RECURSIVE skip_substrs(_, _, _)
(* The position after count length-prefixed substrings of b that start at   *)
(* position at, following the declared lengths; -1 when b ends before.      *)
skip_substrs(b, at, count) ==
    IF count = 0 THEN at
    ELSE IF at < 0 \/ at + 2 > Len(b) THEN -1
    ELSE IF at + 2 + rd_u16(b, at) > Len(b) THEN -1
    ELSE skip_substrs(b, at + 2 + rd_u16(b, at), count - 1)

(* The blob of a variant: its shape and its zero-terminated name, each      *)
(* behind its length.                                                       *)
BlobShape(did, x) ==
    shape_of_variant(shape_cx, enum_variants(did)[x], ty_param_count(did)).s

BlobLen(did, x) == 2 + Len(BlobShape(did, x)) + 2 + enum_variants(did)[x].name.len + 1

RECURSIVE EnumBlobsLen(_, _)
(* the bytes of the blobs of the first x variants of did *)
EnumBlobsLen(did, x) ==
    IF x = 0 THEN 0 ELSE EnumBlobsLen(did, x - 1) + BlobLen(did, x)

RECURSIVE DataStart(_, _)
(* the bytes of the blobs of the first k enums of order *)
DataStart(order, k) ==
    IF k = 0 THEN 0
    ELSE DataStart(order, k - 1) + EnumBlobsLen(order[k], Len(enum_variants(order[k])))

RECURSIVE InfoStart(_, _)
(* the bytes of the info records of the first k enums of order *)
InfoStart(order, k) ==
    IF k = 0 THEN 0
    ELSE InfoStart(order, k - 1) + 7 + 2 * Len(enum_variants(order[k]))

RECURSIVE LvStart(_, _)
(* the bytes of the largest-variant sub-tables of the first k enums *)
LvStart(order, k) ==
    IF k = 0 THEN 0
    ELSE LvStart(order, k - 1) + 2 + 2 * Len(largest_variants(order[k]))

RECURSIVE VariantCount(_, _)
(* the variants of the first k enums of order *)
VariantCount(order, k) ==
    IF k = 0 THEN 0 ELSE VariantCount(order, k - 1) + Len(enum_variants(order[k]))

Order == shape_cx.tag_order

(* the variant indices listed in the largest-variant sub-table of the k-th  *)
(* enum (k from 1), read from lv_table                                      *)
LvListed(k) ==
    LET at == LvStart(Order, k - 1)
    IN  {rd_u16(lv_table, at + 2 * x) : x \in 1..rd_u16(lv_table, at)}

-----------------------------------------------------------------------------
(* C1: in the assembled table every offset field is the byte position of    *)
(* its target from the start of the table: header entry k is the start of   *)
(* the info record of the k-th enum, the record's largest-variant offset is *)
(* the start of that enum's sub-table and its per-variant offsets are the   *)
(* starts of the variants' blobs.                                           *)
C1_OffsetsArePositions ==
    pc \in {"info", "done"} =>
        LET hl == 2 * Len(Order)
            il == InfoStart(Order, Len(Order))
        IN  /\ \A k \in 1..Len(Order) :
                   rd_u16(header, 2 * (k - 1)) = hl + InfoStart(Order, k - 1)
            /\ \A k \in 1..cur :
                   LET rec == InfoStart(Order, k - 1)
                   IN  /\ rd_u16(info, rec + 2) = hl + il + Len(data) + LvStart(Order, k - 1)
                       /\ \A x \in 1..Len(enum_variants(Order[k])) :
                              rd_u16(info, rec + 7 + 2 * (x - 1))
                                = hl + il + DataStart(Order, k - 1)
                                     + EnumBlobsLen(Order[k], x - 1)
            /\ pc = "done" => header = SubSeq(header, 1, hl) \o info \o data \o lv_table

(* the blobs of the variants of the enums of order from the x-th variant   *)
(* of the k-th enum on, in order                                            *)
RECURSIVE ExpectedData(_, _, _)
ExpectedData(order, k, x) ==
    IF k > Len(order) THEN <<>>
    ELSE IF x > Len(enum_variants(order[k])) THEN ExpectedData(order, k + 1, 1)
    ELSE add_substr(add_substr(<<>>, BlobShape(order[k], x)),
                    str_bytes(enum_variants(order[k])[x].name) \o <<0>>)
         \o ExpectedData(order, k, x + 1)

FirstLoopEnded == pc \in {"info", "done"}

C2_DataComplete ==
    /\ FirstLoopEnded =>
          /\ data = ExpectedData(Order, 1, 1)
          /\ Len(offsets) = VariantCount(Order, Len(Order))
    /\ (pc = "info" /\ cur = Len(Order)) => i = Len(offsets)
    /\ pc = "done" => i = Len(offsets)

(* a step of the passes after the first loop                                *)
C2_NoLateRegistration == (pc = "info" \/ pc' = "info" \/ pc' = "done") => shape_cx' = shape_cx

(* C2: when the first loop has ended every enum of tag_order, those found   *)
(* during the loop included, has the blob of each variant in data exactly   *)
(* once, in tag_order and variant order; the later passes register no enum  *)
(* and the final check i == len(offsets) holds.                             *)
C2_FirstLoopFixpoint == []C2_DataComplete /\ [][C2_NoLateRegistration]_vars

C2_Witness ==
    /\ pc = "done"
    /\ Len(calls) = 1
    /\ Len(Order) = 4
    /\ Order[1] = Wrap

(* the tag registry cx maps the declarations of tag_order to their places *)
RegistryConsistent(cx) ==
    /\ cx.next_tag_id = Len(cx.tag_order)
    /\ DOMAIN cx.tag_id_to_index = {cx.tag_order[x] : x \in 1..Len(cx.tag_order)}
    /\ {cx.tag_id_to_index[d] : d \in DOMAIN cx.tag_id_to_index} = 0..(cx.next_tag_id - 1)
    /\ Cardinality({cx.tag_id_to_index[d] : d \in DOMAIN cx.tag_id_to_index})
           = Cardinality(DOMAIN cx.tag_id_to_index)
    /\ \A d \in DOMAIN cx.tag_id_to_index : cx.tag_order[cx.tag_id_to_index[d] + 1] = d

(* a step keeps the ids given so far and only appends to tag_order          *)
RegistryStable ==
    /\ \A d \in DOMAIN shape_cx.tag_id_to_index :
           /\ d \in DOMAIN shape_cx'.tag_id_to_index
           /\ shape_cx'.tag_id_to_index[d] = shape_cx.tag_id_to_index[d]
    /\ Len(shape_cx'.tag_order) >= Len(shape_cx.tag_order)
    /\ SubSeq(shape_cx'.tag_order, 1, Len(shape_cx.tag_order)) = shape_cx.tag_order
    /\ \A d \in DOMAIN shape_cx'.tag_id_to_index \ DOMAIN shape_cx.tag_id_to_index :
           shape_cx'.tag_id_to_index[d] >= shape_cx.next_tag_id

(* C3: the tag registry is consistent after any shape_of calls: the ids in  *)
(* tag_id_to_index are 0 .. next_tag_id-1, no id is given twice,            *)
(* tag_order[id] is the declaration with that id, next_tag_id is            *)
(* len(tag_order); ids are given in discovery order and never change.       *)
C3_RegistryConsistent == [](RegistryConsistent(shape_cx)) /\ [][RegistryStable]_vars

C3_Witness ==
    /\ Len(calls) = 2
    /\ calls[1].t = calls[2].t
    /\ shape_cx.tag_order = <<Opt, List>>
    /\ shape_cx.tag_id_to_index[List] = 1

(* range r is at least range q in size and alignment, both bounded         *)
Dominates(r, q) ==
    /\ r.size.bounded /\ r.align.bounded /\ q.size.bounded /\ q.align.bounded
    /\ r.size.min >= q.size.min
    /\ r.align.min >= q.align.min

(* C4: every variant that largest_variants leaves out is dominated by a     *)
(* variant it keeps: both are bounded and the kept variant's size and       *)
(* alignment are each at least those of the variant left out.               *)
C4_ExcludedAreDominated ==
    pc = "lv_ret" =>
        LET ranges == variant_ranges(enum_variants(Probe))
            kept == {ret.lv[x] : x \in 1..Len(ret.lv)}
        IN  \A q \in (0..(Len(ranges) - 1)) \ kept :
                \E r \in kept : Dominates(ranges[r + 1], ranges[q + 1])

(* C5: largest_variants never eliminates an unbounded variant: the index of *)
(* every variant with a field that depends on a type parameter is in the    *)
(* returned set.                                                            *)
C5_UnboundedKept ==
    pc = "lv_ret" =>
        \A x \in 1..Len(enum_variants(Probe)) :
            (\E y \in 1..Len(enum_variants(Probe)[x].args) :
                 type_has_params(enum_variants(Probe)[x].args[y]))
            => \E z \in 1..Len(ret.lv) : ret.lv[z] = x - 1

C5_Witness ==
    /\ pc = "lv_ret"
    /\ Len(enum_variants(Probe)) = 3
    /\ ret.lv = <<0, 1>>
    /\ ~variant_bounded(enum_variants(Probe)[2])
    /\ variant_ranges(enum_variants(Probe))[1].size.min = 12

(* C6: the info record of a registered enum holds the placeholder (size 0,  *)
(* alignment 0) exactly when some field of a variant of the dominant set    *)
(* written for it is parametric.                                            *)
C6_PlaceholderIffParametric ==
    pc \in {"info", "done"} =>
        \A k \in 1..cur :
            LET rec == InfoStart(Order, k - 1)
                variants == enum_variants(Order[k])
            IN  (rd_u16(info, rec + 4) = 0 /\ info[rec + 7] = 0)
                <=> \E v \in LvListed(k) :
                        \E y \in 1..Len(variants[v + 1].args) :
                            type_has_params(variants[v + 1].args[y])

C6_Witness ==
    /\ pc = "done"
    /\ \E k \in 1..Len(Order) :
          /\ Order[k] = Probe
          /\ Len(enum_variants(Probe)) = 3
          /\ rd_u16(info, InfoStart(Order, k - 1) + 4) = 0
    /\ \E k \in 1..Len(Order) :
          /\ Order[k] = Wrap
          /\ rd_u16(info, InfoStart(Order, k - 1) + 4) = 8

RECURSIVE SumOfSizes(_, _)
SumOfSizes(variants, lv) ==
    IF lv = <<>> THEN 0
    ELSE StructSize(variants[Head(lv) + 1].args) + SumOfSizes(variants, Tail(lv))

Discriminant(variants) == IF Len(variants) > 1 THEN PtrSize ELSE 0

(* C7 as claimed: the static size of an enum without parametric fields is   *)
(* the sum, over the dominant set, of the size of the tuple of the          *)
(* variant's fields, plus the discriminant when there are several variants. *)
C7_StaticSizeIsSum ==
    pc = "sa_ret" =>
        ret.size_align.size
          = SumOfSizes(enum_variants(Probe), ret.lv) + Discriminant(enum_variants(Probe))

(* C7, amended: the static size is the largest, over the dominant set, of   *)
(* the size of the tuple of the variant's fields, plus the discriminant     *)
(* when there are several variants (16-bit arithmetic).                     *)
C7_StaticSizeIsMax ==
    pc = "sa_ret" =>
        LET variants == enum_variants(Probe)
            kept == {ret.lv[x] : x \in 1..Len(ret.lv)}
            sz(v) == U16(StructSize(variants[v + 1].args))
        IN  \E m \in kept :
                /\ \A v \in kept : sz(v) <= sz(m)
                /\ ret.size_align.size = U16(sz(m) + Discriminant(variants))

C7_Witness ==
    /\ pc = "sa_ret"
    /\ Len(ret.lv) = 2
    /\ StructSize(enum_variants(Probe)[ret.lv[1] + 1].args) = 8
    /\ StructSize(enum_variants(Probe)[ret.lv[2] + 1].args) = 4
    /\ ret.size_align.size = 16

(* C8: every length prefix written equals the number of bytes of the        *)
(* substring behind it: following the prefixes of the blobs in data, and of *)
(* the type arguments in the shape of an enum, ends exactly at the end.     *)
C8_PrefixesAreLengths ==
    /\ pc \in {"data", "info", "done"} =>
          skip_substrs(data, 0, 2 * Len(offsets)) = Len(data)
    /\ \A c \in 1..Len(calls) :
          (calls[c].t.k = "ty_enum" /\ enum_kind(calls[c].t.n) \in {"tk_newtype", "tk_complex"})
          => skip_substrs(calls[c].s, 5, Len(calls[c].t.sub)) = Len(calls[c].s)

(* every registered declaration has a variant with a field                 *)
C9_OnlyDataEnums ==
    \A k \in 1..Len(Order) :
        \E x \in 1..Len(enum_variants(Order[k])) : Len(enum_variants(Order[k])[x].args) > 0

(* t is an enum none of whose variants has a field (unit or plain)         *)
IsDataLess(t) ==
    /\ t.k = "ty_enum"
    /\ \A x \in 1..Len(enum_variants(t.n)) : enum_variants(t.n)[x].args = <<>>

(* a step that is a shape_of call on a unit or plain enum                   *)
C9_DataLessCall ==
    (Len(calls') = Len(calls) + 1 /\ IsDataLess(calls'[Len(calls')].t))
    => /\ calls'[Len(calls')].s = <<s_variant_enum_t>>
       /\ shape_cx' = shape_cx

(* C9: only newtype and complex enums are registered; shape_of of a unit or *)
(* plain enum returns the one discriminant scalar byte and leaves the       *)
(* registry unchanged.                                                      *)
C9_OnlyDataEnumsRegistered == []C9_OnlyDataEnums /\ [][C9_DataLessCall]_vars

C9_Witness ==
    /\ Len(calls) = 2
    /\ calls[1].t = ty_enum(Wrap, <<>>)
    /\ calls[2].t = ty_enum(Color, <<>>)
    /\ calls[2].s = <<shape_i64>>
    /\ Order = <<Wrap>>

(* C10: shape_of is deterministic across registry changes: a call on the    *)
(* type and ty_param_map of an earlier call returns the bytes that call     *)
(* returned, whatever was registered since.                                 *)
C10_Deterministic ==
    \A c \in 1..Len(calls) :
        LET again == shape_of(shape_cx, calls[c].t, calls[c].m)
        IN  again.ok /\ again.s = calls[c].s

C10_Witness ==
    /\ pc = "done"
    /\ Len(calls) = 3
    /\ calls[1].t = ty_enum(Opt, <<ty_enum(List, <<>>)>>)
    /\ calls[2].t = ty_enum(Wrap, <<>>)
    /\ calls[3].t = calls[1].t
    /\ calls[3].s = calls[1].s
    /\ Order[Len(Order)] = Probe

-----------------------------------------------------------------------------
(* Instantiations of one enum declaration: trans takes the shapes of opt<A> *)
(* and probe<A> for several type arguments A (shape_of, lines 318-343).     *)

(* The type arguments, each with the ty_param_map of the item it occurs in. *)
InstArgs ==
    {[a |-> u8, m |-> <<>>],
     [a |-> Ty("ty_bool"), m |-> <<>>],
     [a |-> u32, m |-> <<>>],
     [a |-> Ty("ty_int"), m |-> <<>>],
     [a |-> ty_box(u8), m |-> <<>>],
     [a |-> ty_box(u32), m |-> <<>>],
     [a |-> ty_enum(List, <<>>), m |-> <<>>],
     [a |-> ty_param(0), m |-> <<0>>]}

InstRoots == {[t |-> ty_enum(d, <<x.a>>), m |-> x.m] : d \in {Opt, Probe}, x \in InstArgs}

NextInst == \E r \in InstRoots : ShapeOfCall(r.t, r.m)

SpecInst == Init /\ [][NextInst]_vars

(* the tag id in the bytes shape_of returned for a newtype or complex enum  *)
TagIdOf(s) == rd_u16(s, 1)

(* the bytes after the tag id: the argument count and the arguments' shapes *)
Payload(s) == SubSeq(s, 4, Len(s))

(* the shapes of the type arguments of the c-th call, each taken on its own *)
ArgShapes(c) ==
    [x \in 1..Len(calls[c].t.sub) |-> shape_of(shape_cx, calls[c].t.sub[x], calls[c].m).s]

(* calls a and b are on the same newtype or complex enum declaration with   *)
(* different type arguments                                                 *)
TwoInstantiations(a, b) ==
    /\ calls[a].t.k = "ty_enum"
    /\ calls[b].t.k = "ty_enum"
    /\ calls[a].t.n = calls[b].t.n
    /\ enum_kind(calls[a].t.n) \in {"tk_newtype", "tk_complex"}
    /\ calls[a].t.sub # calls[b].t.sub

-----------------------------------------------------------------------------
(* The tables of the crates whose probe enum is any variant list over the   *)
(* pool: trans takes the shape of probe<u8> and gen_enum_shapes writes the  *)
(* tables, the largest-variant sub-tables among them (lines 485-487).       *)

InitTable ==
    /\ tcx \in {World(p) : p \in SeqsUpTo(VariantPool, MaxVariants)}
    /\ shape_cx = mk_ctxt
    /\ pc = "trans"
    /\ i = 0
    /\ cur = 0
    /\ data = <<>>
    /\ offsets = <<>>
    /\ header = <<>>
    /\ info = <<>>
    /\ lv_table = <<>>
    /\ sizes = NoSizes
    /\ calls = <<>>
    /\ ret = NoRet

NextTable ==
    \/ ShapeOfCall(ty_enum(Probe, <<u8>>), <<>>)
    \/ GenBegin
    \/ GenData
    \/ GenHeader
    \/ GenInfo
    \/ GenFinish

SpecTable == InitTable /\ [][NextTable]_vars

(* the count field of the largest-variant sub-table of the k-th enum        *)
LvCount(k) == rd_u16(lv_table, LvStart(Order, k - 1))

(* C12: for every enum with at least one variant largest_variants returns   *)
(* a non-empty list of variant indices, and every largest-variant sub-table *)
(* written by gen_enum_shapes has a count of at least one and lists indices *)
(* of variants of its enum.                                                 *)
C12_LargestVariantsNonEmpty ==
    /\ \A d \in DOMAIN tcx :
           Len(enum_variants(d)) >= 1 =>
               LET lv == largest_variants(d)
               IN  /\ lv # <<>>
                   /\ {lv[x] : x \in 1..Len(lv)} \subseteq 0..(Len(enum_variants(d)) - 1)
    /\ pc \in {"info", "done"} =>
           \A k \in 1..cur :
               /\ LvCount(k) >= 1
               /\ LvListed(k) # {}
               /\ LvListed(k) \subseteq 0..(Len(enum_variants(Order[k])) - 1)

(* enum probe { a(u32), b((u8 x 8)), c(u8) }: a is thrown out by b and then *)
(* still throws out c; the sub-table lists b alone.                         *)
C12_Witness ==
    /\ pc = "done"
    /\ enum_variants(Probe) = <<Variant(Name(97, 1), <<u32>>),
                                Variant(Name(98, 1), <<bytes8>>),
                                Variant(Name(99, 1), <<u8>>)>>
    /\ Order = <<Probe>>
    /\ LvCount(1) = 1
    /\ LvListed(1) = {1}

====
